---- MODULE Spec2Model ----
(***************************************************************************)
(* Comment resolution of src/lib/converter/comments/index.ts:              *)
(* the process-wide commentCache, the shared routine getCommentWithCache   *)
(* and the three entry points getComment, getSignatureComment and          *)
(* getJsDocComment.                                                        *)
(*                                                                         *)
(* Objects live on heaps so that identity and aliasing are visible:        *)
(*   comments : Comment instances (summary, blockTags, modifierTags)       *)
(*   arrays   : the content arrays a Comment or a CommentTag points to     *)
(*   maps     : the Map<number, Comment> instances held by the WeakMap     *)
(* An id is an index into its heap; 0 stands for undefined.                *)
(***************************************************************************)
EXTENDS Integers, Sequences, FiniteSets, TLC

VARIABLES commentCache, maps, comments, arrays, pending, parseCount,
          firstParsed, firstStored, warnings, errors, returned, jsDocCalls,
          steps, last

vars == <<commentCache, maps, comments, arrays, pending, parseCount,
          firstParsed, firstStored, warnings, errors, returned, jsDocCalls,
          steps, last>>

(***************************************************************************)
(* Bounds of the exploration.                                              *)
(***************************************************************************)
MaxSteps == 3
MaxPending == 2

(***************************************************************************)
(* The inputs: source files, comment ranges, parser configurations,        *)
(* loggers.                                                                *)
(***************************************************************************)
Files == {"a.ts", "b.ts"}

MultiLineCommentTrivia == "MultiLineCommentTrivia"
SingleLineCommentTrivia == "SingleLineCommentTrivia"
UnknownTrivia == "UnknownTrivia"

Loggers == {"L1", "L2"}

cfgFull == [blockTags |-> {"@module", "@enum", "@param", "@template"},
            inlineTags |-> {"@link"},
            modifierTags |-> {"@packageDocumentation"}]

cfgBare == [blockTags |-> {"@module", "@enum", "@param", "@template"},
            inlineTags |-> {"@link"},
            modifierTags |-> {}]

Configs == {cfgFull, cfgBare}

\* What is written in file.text at a range start: the tags of the block, in
\* order, each with the identifier and the content that follow it.
RawText(file, pos) ==
    CASE file = "a.ts" /\ pos = 0 ->
           [summary |-> <<"pkg">>,
            tags |-> <<[tag |-> "@packageDocumentation", name |-> "", content |-> <<>>]>>]
      [] file = "a.ts" /\ pos = 5 ->
           [summary |-> <<"kinds">>,
            tags |-> <<[tag |-> "@enum", name |-> "", content |-> <<"e">>],
                       [tag |-> "@param", name |-> "x", content |-> <<"px">>],
                       [tag |-> "@template", name |-> "T", content |-> <<"tt">>],
                       [tag |-> "@template", name |-> "V,", content |-> <<"both">>]>>]
      [] file = "b.ts" /\ pos = 0 ->
           [summary |-> <<"mod">>,
            tags |-> <<[tag |-> "@module", name |-> "", content |-> <<"m">>]>>]
      [] OTHER ->
           [summary |-> <<"plain">>,
            tags |-> <<[tag |-> "@param", name |-> "x", content |-> <<"qx">>]>>]

\* The ranges discovery can hand over: block comments at 0 and 5 of each
\* file, a line comment at 9 of a.ts, a range of no known kind at 9 of b.ts.
Ranges(file) ==
    {[kind |-> MultiLineCommentTrivia, pos |-> 0, end |-> 4],
     [kind |-> MultiLineCommentTrivia, pos |-> 5, end |-> 8]}
    \cup (IF file = "a.ts"
          THEN {[kind |-> SingleLineCommentTrivia, pos |-> 9, end |-> 12]}
          ELSE {[kind |-> UnknownTrivia, pos |-> 9, end |-> 12]})

\* The tuple [ts.SourceFile, ts.CommentRange] of discovery; <<>> is undefined.
Undefined == <<>>

Discovered == UNION {{<<f, r>> : r \in Ranges(f)} : f \in Files}

Keys == Files \X {0, 5, 9}

(***************************************************************************)
(* The Comment model class (models/comments): values, heap allocation,     *)
(* deep copy and the look-ups the engine calls.                            *)
(***************************************************************************)
\* The value of the Comment instance id, every array followed.
Deep(st, id) ==
    LET c == st.comments[id]
    IN [summary |-> st.arrays[c.summary],
        blockTags |-> [i \in 1..Len(c.blockTags) |->
                         [tag |-> c.blockTags[i].tag,
                          name |-> c.blockTags[i].name,
                          content |-> st.arrays[c.blockTags[i].content]]],
        modifierTags |-> c.modifierTags]

\* A new Comment instance holding value v, with new arrays of its own; the new
\* instance is the last of the comments heap.
Alloc(st, v) ==
    LET base == Len(st.arrays)
        n == Len(v.blockTags)
    IN [st EXCEPT
          !.arrays = @ \o <<v.summary>> \o [i \in 1..n |-> v.blockTags[i].content],
          !.comments = Append(@,
              [summary |-> base + 1,
               blockTags |-> [i \in 1..n |->
                                [tag |-> v.blockTags[i].tag,
                                 name |-> v.blockTags[i].name,
                                 content |-> base + 1 + i]],
               modifierTags |-> v.modifierTags])]

\* Comment.clone(): an independent deep copy. The result is [st, id].
clone(st, id) ==
    LET st2 == Alloc(st, Deep(st, id))
    IN [st |-> st2, id |-> Len(st2.comments)]

\* new Comment(summary): a Comment around the array it is given (arr > 0), or
\* around a new empty array (arr = 0, the default parameter).
NewComment(st, arr) ==
    LET st1 == IF arr = 0 THEN [st EXCEPT !.arrays = Append(@, <<>>)] ELSE st
        a == IF arr = 0 THEN Len(st1.arrays) ELSE arr
        st2 == [st1 EXCEPT !.comments =
                   Append(@, [summary |-> a, blockTags |-> <<>>, modifierTags |-> {}])]
    IN [st |-> st2, id |-> Len(st2.comments)]

\* Array.prototype.slice(): a new array with the same elements.
slice(st, arr) ==
    LET st2 == [st EXCEPT !.arrays = Append(@, st.arrays[arr])]
    IN [st |-> st2, arr |-> Len(st2.arrays)]

hasModifier(st, id, tagName) == tagName \in st.comments[id].modifierTags

\* Comment.getTag(tagName): the index of the first block tag of that name, or 0.
getTag(st, id, tagName) ==
    LET tags == st.comments[id].blockTags
        hits == {i \in 1..Len(tags) : tags[i].tag = tagName}
    IN IF hits = {} THEN 0 ELSE CHOOSE i \in hits : \A j \in hits : i <= j

\* Comment.getIdentifiedTag(identifier, tagName): index of the first block
\* tag with that tag name and that identifier, or 0.
getIdentifiedTag(st, id, identifier, tagName) ==
    LET tags == st.comments[id].blockTags
        hits == {i \in 1..Len(tags) : tags[i].tag = tagName /\ tags[i].name = identifier}
    IN IF hits = {} THEN 0 ELSE CHOOSE i \in hits : \A j \in hits : i <= j

(***************************************************************************)
(* The external lexer and parser: a pure function of the raw text and the  *)
(* configuration. A tag the configuration lists as a modifier becomes a    *)
(* modifier, any other tag a block tag; a tag in neither vocabulary is     *)
(* reported through the warning callback.                                  *)
(***************************************************************************)
lexBlockComment(file, pos, end) == RawText(file, pos)

IsModifier(t, config) == t.tag \in config.modifierTags
IsBlock(t, config) == t.tag \notin config.modifierTags

parseComment(tokens, config) ==
    LET unknown == SelectSeq(tokens.tags,
                     LAMBDA t : t.tag \notin config.blockTags \cup config.modifierTags)
    IN [comment |->
          [summary |-> tokens.summary,
           blockTags |-> SelectSeq(tokens.tags, LAMBDA t : IsBlock(t, config)),
           modifierTags |-> {tokens.tags[i].tag : i \in
                               {j \in 1..Len(tokens.tags) : IsModifier(tokens.tags[j], config)}}],
        warned |-> [i \in 1..Len(unknown) |-> "Encountered an unknown block tag"]]

(***************************************************************************)
(* The state the operators below transform, as one record.                 *)
(***************************************************************************)
St == [commentCache |-> commentCache, maps |-> maps, comments |-> comments,
       arrays |-> arrays, parseCount |-> parseCount, firstParsed |-> firstParsed,
       firstStored |-> firstStored, warnings |-> warnings, errors |-> errors]

NoValue == [summary |-> <<"?">>, blockTags |-> <<>>, modifierTags |-> {"?"}]

GerritFixMe == "GERRIT FIX ME"
AssertNeverError == "Error: Expected handling to cover all possible cases"
AmbiguousTemplate ==
    "TypeDoc does not support multiple type parameters defined in a single @template tag with a comment."
BugReport == "Failed to find JSDoc tag after parsing comment, please file a bug report."

(***************************************************************************)
(* getCommentWithCache, in the steps of its code.                          *)
(***************************************************************************)
cacheOf_anyFile(st, file) ==
    IF DOMAIN st.commentCache /= {}
    THEN [st |-> st, cache |-> st.commentCache[CHOOSE f \in DOMAIN st.commentCache : TRUE]]
    ELSE [st |-> [st EXCEPT !.maps = Append(@, <<>>)], cache |-> Len(st.maps) + 1]

cacheOf_registers(st, file) ==
    IF file \in DOMAIN st.commentCache
    THEN [st |-> st, cache |-> st.commentCache[file]]
    ELSE [st |-> [st EXCEPT !.maps = Append(@, <<>>),
                            !.commentCache = (file :> Len(st.maps) + 1) @@ @],
          cache |-> Len(st.maps) + 1]

\* const cache = commentCache.get(file) || new Map(): the Map of the file, or
\* a new empty Map that no one else holds yet.
cacheOf(st, file) ==
    IF file \in DOMAIN st.commentCache
    THEN [st |-> st, cache |-> st.commentCache[file]]
    ELSE [st |-> [st EXCEPT !.maps = Append(@, <<>>)], cache |-> Len(st.maps) + 1]

cacheHas_never(st, cache, range) == FALSE

\* cache?.has(range.pos)
cacheHas(st, cache, range) == range.pos \in DOMAIN st.maps[cache]

cacheHit_alias(st, cache, range) == [st |-> st, id |-> st.maps[cache][range.pos]]

\* return cache.get(range.pos)!.clone()
cacheHit(st, cache, range) == clone(st, st.maps[cache][range.pos])

\* The warning closure and the switch on range.kind. The result is the state
\* with the parsed Comment allocated, its id, and what was thrown ("" when
\* nothing was).
parseRange(st, file, range, config, logger) ==
    CASE range.kind = MultiLineCommentTrivia ->
           LET p == parseComment(lexBlockComment(file, range.pos, range.end), config)
               key == <<file, range.pos>>
               st1 == [st EXCEPT
                         !.parseCount[key] = @ + 1,
                         !.firstParsed[key] = IF @ = NoValue THEN p.comment ELSE @,
                         !.warnings = @ \o [i \in 1..Len(p.warned) |->
                                              [logger |-> logger, text |-> p.warned[i],
                                               at |-> key]]]
               st2 == Alloc(st1, p.comment)
           IN [st |-> st2, comment |-> Len(st2.comments), thrown |-> ""]
      [] range.kind = SingleLineCommentTrivia ->
           [st |-> st, comment |-> 0, thrown |-> GerritFixMe]
      [] OTHER ->
           [st |-> st, comment |-> 0, thrown |-> AssertNeverError]

storeAndClone_freshMap(st, file, range, cache, comment) ==
    clone([st EXCEPT
             !.maps = Append(@, (range.pos :> comment)),
             !.commentCache = (file :> Len(st.maps) + 1) @@ @,
             !.firstStored[<<file, range.pos>>] = IF @ = 0 THEN comment ELSE @],
          comment)

storeAndClone_noClone(st, file, range, cache, comment) ==
    [st |-> [st EXCEPT
               !.maps[cache] = (range.pos :> comment) @@ @,
               !.commentCache = (file :> cache) @@ @,
               !.firstStored[<<file, range.pos>>] = IF @ = 0 THEN comment ELSE @],
     id |-> comment]

\* cache.set(range.pos, comment); commentCache.set(file, cache);
\* return comment.clone()
storeAndClone(st, file, range, cache, comment) ==
    clone([st EXCEPT
             !.maps[cache] = (range.pos :> comment) @@ @,
             !.commentCache = (file :> cache) @@ @,
             !.firstStored[<<file, range.pos>>] = IF @ = 0 THEN comment ELSE @],
          comment)

CoreResult(st, ret, thrown, parsed, hit) ==
    [st |-> st, ret |-> ret, thrown |-> thrown, parsed |-> parsed, hit |-> hit]

getCommentWithCache_perConfig(st, discovered, config, logger) ==
    IF discovered = Undefined
    THEN CoreResult(st, 0, "", FALSE, FALSE)
    ELSE LET file == discovered[1]
             range == discovered[2]
             c == cacheOf(st, file)
         IN IF cacheHas(c.st, c.cache, range) /\ config = cfgFull
            THEN LET h == cacheHit(c.st, c.cache, range)
                 IN CoreResult(h.st, h.id, "", FALSE, TRUE)
            ELSE LET p == parseRange(c.st, file, range, config, logger)
                 IN IF p.thrown /= ""
                    THEN CoreResult(p.st, 0, p.thrown, FALSE, FALSE)
                    ELSE LET s == storeAndClone(p.st, file, range, c.cache, p.comment)
                         IN CoreResult(s.st, s.id, "", TRUE, FALSE)

getCommentWithCache_noGuard(st, discovered, config, logger) ==
    IF discovered = Undefined
    THEN CoreResult(st, 0, "TypeError: undefined is not iterable", FALSE, FALSE)
    ELSE LET file == discovered[1]
             range == discovered[2]
             c == cacheOf(st, file)
         IN IF cacheHas(c.st, c.cache, range)
            THEN LET h == cacheHit(c.st, c.cache, range)
                 IN CoreResult(h.st, h.id, "", FALSE, TRUE)
            ELSE LET p == parseRange(c.st, file, range, config, logger)
                 IN IF p.thrown /= ""
                    THEN CoreResult(p.st, 0, p.thrown, FALSE, FALSE)
                    ELSE LET s == storeAndClone(p.st, file, range, c.cache, p.comment)
                         IN CoreResult(s.st, s.id, "", TRUE, FALSE)

getCommentWithCache(st, discovered, config, logger) ==
    IF discovered = Undefined
    THEN CoreResult(st, 0, "", FALSE, FALSE)
    ELSE LET file == discovered[1]
             range == discovered[2]
             c == cacheOf(st, file)
         IN IF cacheHas(c.st, c.cache, range)
            THEN LET h == cacheHit(c.st, c.cache, range)
                 IN CoreResult(h.st, h.id, "", FALSE, TRUE)
            ELSE LET p == parseRange(c.st, file, range, config, logger)
                 IN IF p.thrown /= ""
                    THEN CoreResult(p.st, 0, p.thrown, FALSE, FALSE)
                    ELSE LET s == storeAndClone(p.st, file, range, c.cache, p.comment)
                         IN CoreResult(s.st, s.id, "", TRUE, FALSE)

(***************************************************************************)
(* The callers' inputs: symbols, signatures and JSDoc tag declarations.    *)
(* Discovery is external: a symbol or signature carries what discovery     *)
(* finds for it.                                                           *)
(***************************************************************************)
Callers == {[config |-> cfgFull, logger |-> "L1"],
            [config |-> cfgBare, logger |-> "L2"]}

BlockAt(f, p) == <<f, CHOOSE r \in Ranges(f) : r.pos = p>>

\* File-level symbols of both files, whose comment is the first block of the
\* file, and other symbols: the first statement of a file (same block as the
\* file), a declaration with a plain block, one with a line comment, one with
\* no comment.
Symbols ==
    {[declarations |-> <<"SourceFile">>, discovered |-> d] :
        d \in {BlockAt("a.ts", 0), BlockAt("b.ts", 0), BlockAt("b.ts", 5)}}
    \cup
    {[declarations |-> <<"FunctionDeclaration">>, discovered |-> d] :
        d \in {BlockAt("a.ts", 0), BlockAt("b.ts", 0), BlockAt("b.ts", 5),
               BlockAt("a.ts", 9), Undefined}}

Signatures ==
    {[discovered |-> d] : d \in {BlockAt("a.ts", 0), BlockAt("b.ts", 9), Undefined}}

JsDoc(id, file, pos, kind, tagName, name, comment, typeParameters) ==
    [id |-> id, file |-> file, parent |-> [pos |-> pos, end |-> pos + 3],
     kind |-> kind, tagName |-> tagName, name |-> name, comment |-> comment,
     typeParameters |-> typeParameters]

Declarations ==
    {JsDoc("enumA", "a.ts", 5, "JSDocEnumTag", "enum", "", FALSE, <<>>),
     JsDoc("enumB", "b.ts", 5, "JSDocEnumTag", "enum", "", FALSE, <<>>),
     JsDoc("paramX", "a.ts", 5, "JSDocParameterTag", "param", "x", FALSE, <<>>),
     JsDoc("paramY", "a.ts", 5, "JSDocParameterTag", "param", "y", FALSE, <<>>),
     JsDoc("paramAnon", "a.ts", 5, "JSDocParameterTag", "param", "", FALSE, <<>>),
     JsDoc("templOne", "a.ts", 5, "JSDocTemplateTag", "template", "", TRUE, <<"T">>),
     JsDoc("templMulti", "a.ts", 5, "JSDocTemplateTag", "template", "", FALSE, <<"T", "U">>),
     JsDoc("templAmb", "a.ts", 5, "JSDocTemplateTag", "template", "", TRUE, <<"V", "W">>)}

DeclIds == {d.id : d \in Declarations}

discoverComment(symbol, kind, logger) == symbol.discovered
discoverSignatureComment(declaration) == declaration.discovered

isSourceFile(node) == node = "SourceFile"
isJSDocEnumTag(declaration) == declaration.kind = "JSDocEnumTag"
isJSDocTemplateTag(declaration) == declaration.kind = "JSDocTemplateTag"

\* symbol.declarations?.some(ts.isSourceFile)
someSourceFile(symbol) ==
    \E i \in 1..Len(symbol.declarations) : isSourceFile(symbol.declarations[i])

(***************************************************************************)
(* The entry points. Each yields the new state, the Comment returned (0    *)
(* for undefined), what was thrown, the Comment the shared routine gave    *)
(* (core), and which applicability checks were evaluated.                  *)
(***************************************************************************)
EntryResult(r, ret, checks) ==
    [st |-> r.st, ret |-> ret, thrown |-> r.thrown, core |-> r.ret,
     parsed |-> r.parsed, hit |-> r.hit, checks |-> checks]

isModuleComment_modifierOnly(st, comment) ==
    hasModifier(st, comment, "@packageDocumentation")

\* Lines 72-75: the comment is tagged as a module comment.
isModuleComment(st, comment) ==
    hasModifier(st, comment, "@packageDocumentation") \/ getTag(st, comment, "@module") /= 0

getComment_evictOnReject(st, symbol, kind, config, logger) ==
    LET r == getCommentWithCache(st, discoverComment(symbol, kind, logger), config, logger)
        comment == r.ret
        first == someSourceFile(symbol) /\ comment /= 0
        second == ~someSourceFile(symbol) /\ comment /= 0
        evicted(s, d) == [s EXCEPT !.maps[s.commentCache[d[1]]] =
                                      [p \in DOMAIN @ \ {d[2].pos} |-> @[p]]]
        e == IF comment = 0 THEN r ELSE [r EXCEPT !.st = evicted(r.st, symbol.discovered)]
    IN IF r.thrown /= ""
       THEN EntryResult(r, 0, {})
       ELSE IF first /\ ~isModuleComment(r.st, comment)
            THEN EntryResult(e, 0, {"module"})
            ELSE IF second /\ isModuleComment(r.st, comment)
                 THEN EntryResult(e, 0, (IF first THEN {"module"} ELSE {}) \cup {"nonModule"})
                 ELSE EntryResult(r, comment,
                                  (IF first THEN {"module"} ELSE {})
                                  \cup (IF second THEN {"nonModule"} ELSE {}))

getComment_noSecondCheck(st, symbol, kind, config, logger) ==
    LET r == getCommentWithCache(st, discoverComment(symbol, kind, logger), config, logger)
        comment == r.ret
        first == someSourceFile(symbol) /\ comment /= 0
    IN IF r.thrown /= ""
       THEN EntryResult(r, 0, {})
       ELSE IF first /\ ~isModuleComment(r.st, comment)
            THEN EntryResult(r, 0, {"module"})
            ELSE EntryResult(r, comment, IF first THEN {"module"} ELSE {})

getComment(st, symbol, kind, config, logger) ==
    LET r == getCommentWithCache(st, discoverComment(symbol, kind, logger), config, logger)
        comment == r.ret
        first == someSourceFile(symbol) /\ comment /= 0
        second == ~someSourceFile(symbol) /\ comment /= 0
    IN IF r.thrown /= ""
       THEN EntryResult(r, 0, {})
       ELSE IF first /\ ~isModuleComment(r.st, comment)
            THEN EntryResult(r, 0, {"module"})
            ELSE IF second /\ isModuleComment(r.st, comment)
                 THEN EntryResult(r, 0, (IF first THEN {"module"} ELSE {}) \cup {"nonModule"})
                 ELSE EntryResult(r, comment,
                                  (IF first THEN {"module"} ELSE {})
                                  \cup (IF second THEN {"nonModule"} ELSE {}))

getSignatureComment_filtered(st, declaration, config, logger) ==
    LET r == getCommentWithCache(st, discoverSignatureComment(declaration), config, logger)
    IN IF r.ret /= 0 /\ isModuleComment(r.st, r.ret)
       THEN EntryResult(r, 0, {"nonModule"})
       ELSE EntryResult(r, r.ret, {})

getSignatureComment(st, declaration, config, logger) ==
    LET r == getCommentWithCache(st, discoverSignatureComment(declaration), config, logger)
    IN EntryResult(r, r.ret, {})

warn(st, logger, text, at) ==
    [st EXCEPT !.warnings = Append(@, [logger |-> logger, text |-> text, at |-> at])]

error(st, logger, text, at) ==
    [st EXCEPT !.errors = Append(@, [logger |-> logger, text |-> text, at |-> at])]

enumComment_strict(st, comment) ==
    LET t == getTag(st, comment, "@enum")
    IN IF t = 0
       THEN [st |-> st, id |-> 0]
       ELSE NewComment(st, st.comments[comment].blockTags[t].content)

enumComment_summary(st, comment) == NewComment(st, st.comments[comment].summary)

\* Lines 138-140: new Comment(comment.getTag("@enum")?.content).
enumComment(st, comment) ==
    LET t == getTag(st, comment, "@enum")
    IN NewComment(st, IF t = 0 THEN 0 ELSE st.comments[comment].blockTags[t].content)

isAmbiguousTemplate_moreThanTwo(declaration) ==
    /\ isJSDocTemplateTag(declaration)
    /\ declaration.comment
    /\ Len(declaration.typeParameters) > 2

\* Lines 142-146: a @template tag with a comment and several type parameters.
isAmbiguousTemplate(declaration) ==
    /\ isJSDocTemplateTag(declaration)
    /\ declaration.comment
    /\ Len(declaration.typeParameters) > 1

targetName_lastParam(declaration) ==
    IF isJSDocTemplateTag(declaration)
    THEN declaration.typeParameters[Len(declaration.typeParameters)]
    ELSE declaration.name

\* Lines 157-163: the name the tag is looked up by ("" when there is none).
targetName(declaration) ==
    IF isJSDocTemplateTag(declaration)
    THEN declaration.typeParameters[1]
    ELSE declaration.name

extractTag_silent(st, comment, declaration, name, logger) ==
    LET tag == getIdentifiedTag(st, comment, name, "@" \o declaration.tagName)
    IN IF tag = 0
       THEN [st |-> st, id |-> 0]
       ELSE LET s == slice(st, st.comments[comment].blockTags[tag].content)
            IN NewComment(s.st, s.arr)

\* Lines 169-178: the identified tag's content in a new Comment, or an error
\* reported through the logger and undefined.
extractTag(st, comment, declaration, name, logger) ==
    LET tag == getIdentifiedTag(st, comment, name, "@" \o declaration.tagName)
    IN IF tag = 0
       THEN [st |-> error(st, logger, BugReport, declaration.id), id |-> 0]
       ELSE LET s == slice(st, st.comments[comment].blockTags[tag].content)
            IN NewComment(s.st, s.arr)

getJsDocComment_noNameCheck(st, declaration, config, logger) ==
    LET file == declaration.file
        parent == declaration.parent
        r == getCommentWithCache(st,
                 <<file, [kind |-> MultiLineCommentTrivia,
                          pos |-> parent.pos, end |-> parent.end]>>,
                 config, logger)
        comment == r.ret
        out(st2, ret) == EntryResult([r EXCEPT !.st = st2], ret, {})
    IN IF isJSDocEnumTag(declaration)
       THEN LET n == enumComment(r.st, comment)
            IN out(n.st, n.id)
       ELSE IF isAmbiguousTemplate(declaration)
            THEN out(warn(r.st, logger, AmbiguousTemplate, declaration.id), 0)
            ELSE LET n == extractTag(r.st, comment, declaration, targetName(declaration),
                                     logger)
                 IN out(n.st, n.id)

getJsDocComment(st, declaration, config, logger) ==
    LET file == declaration.file
        parent == declaration.parent
        r == getCommentWithCache(st,
                 <<file, [kind |-> MultiLineCommentTrivia,
                          pos |-> parent.pos, end |-> parent.end]>>,
                 config, logger)
        comment == r.ret
        out(st2, ret) == EntryResult([r EXCEPT !.st = st2], ret, {})
    IN IF isJSDocEnumTag(declaration)
       THEN LET n == enumComment(r.st, comment)
            IN out(n.st, n.id)
       ELSE IF isAmbiguousTemplate(declaration)
            THEN out(warn(r.st, logger, AmbiguousTemplate, declaration.id), 0)
            ELSE LET name == targetName(declaration)
                 IN IF name = ""
                    THEN out(r.st, 0)
                    ELSE LET n == extractTag(r.st, comment, declaration, name, logger)
                         IN out(n.st, n.id)

(***************************************************************************)
(* The state machine: one action per entry point, plus the caller's        *)
(* mutation of a Comment it was given.                                     *)
(***************************************************************************)
NoSymbol == [declarations |-> <<>>, discovered |-> Undefined]
NoDeclaration == JsDoc("none", "", 0, "", "", "", FALSE, <<>>)
NoKey == <<"", 0>>

KeyOf(discovered) ==
    IF discovered = Undefined THEN NoKey ELSE <<discovered[1], discovered[2].pos>>

ValueOf(st, id) == IF id = 0 THEN NoValue ELSE Deep(st, id)

Init ==
    /\ commentCache = <<>>
    /\ maps = <<>>
    /\ comments = <<>>
    /\ arrays = <<>>
    /\ pending = {}
    /\ parseCount = [k \in Keys |-> 0]
    /\ firstParsed = [k \in Keys |-> NoValue]
    /\ firstStored = [k \in Keys |-> 0]
    /\ warnings = <<>>
    /\ errors = <<>>
    /\ returned = {}
    /\ jsDocCalls = [d \in DeclIds |-> 0]
    /\ steps = 0
    /\ last = [op |-> "init", key |-> NoKey, symbol |-> NoSymbol,
               declaration |-> NoDeclaration,
               ret |-> 0, core |-> 0, thrown |-> "", parsed |-> FALSE, hit |-> FALSE,
               checks |-> {}, coreValue |-> NoValue, retValue |-> NoValue,
               warned |-> 0, errored |-> 0]

\* The state after an entry point returned (or threw) r.
Effects(r, op, key, symbol, declaration) ==
    /\ commentCache' = r.st.commentCache
    /\ maps' = r.st.maps
    /\ comments' = r.st.comments
    /\ arrays' = r.st.arrays
    /\ parseCount' = r.st.parseCount
    /\ firstParsed' = r.st.firstParsed
    /\ firstStored' = r.st.firstStored
    /\ warnings' = r.st.warnings
    /\ errors' = r.st.errors
    /\ returned' = IF r.ret = 0 THEN returned
                   ELSE returned \cup {[id |-> r.ret, key |-> key, op |-> op,
                                        seq |-> Len(r.st.comments)]}
    /\ last' = [op |-> op, key |-> key, symbol |-> symbol,
                declaration |-> declaration,
                ret |-> r.ret, core |-> r.core, thrown |-> r.thrown,
                parsed |-> r.parsed, hit |-> r.hit, checks |-> r.checks,
                coreValue |-> ValueOf(r.st, r.core), retValue |-> ValueOf(r.st, r.ret),
                warned |-> Len(r.st.warnings) - Len(warnings),
                errored |-> Len(r.st.errors) - Len(errors)]

Commit(r, op, key, symbol, declaration) ==
    /\ Effects(r, op, key, symbol, declaration)
    /\ steps' = steps + 1

ReflectionKindOf(symbol) == IF someSourceFile(symbol) THEN "Module" ELSE "Function"

GetComment ==
    \E symbol \in Symbols, c \in Callers :
        /\ steps < MaxSteps
        /\ Commit(getComment(St, symbol, ReflectionKindOf(symbol), c.config, c.logger),
                  "getComment", KeyOf(symbol.discovered), symbol, NoDeclaration)
        /\ UNCHANGED <<pending, jsDocCalls>>

GetSignatureComment ==
    \E declaration \in Signatures, c \in Callers :
        /\ steps < MaxSteps
        /\ Commit(getSignatureComment(St, declaration, c.config, c.logger),
                  "getSignatureComment", KeyOf(declaration.discovered), NoSymbol,
                  NoDeclaration)
        /\ UNCHANGED <<pending, jsDocCalls>>

GetJsDocComment ==
    \E declaration \in Declarations, c \in Callers :
        /\ steps < MaxSteps
        /\ Commit(getJsDocComment(St, declaration, c.config, c.logger),
                  "getJsDocComment", <<declaration.file, declaration.parent.pos>>,
                  NoSymbol, declaration)
        /\ jsDocCalls' = [jsDocCalls EXCEPT ![declaration.id] = @ + 1]
        /\ UNCHANGED pending

\* A caller changes a Comment an entry point returned to it, in every way it
\* can: it adds a modifier, drops the block tags and pushes a part onto the
\* summary array.
Mutate ==
    \E id \in {r.id : r \in returned} :
        /\ steps < MaxSteps
        /\ steps' = steps + 1
        /\ comments' = [comments EXCEPT
                          ![id].modifierTags = @ \cup {"@packageDocumentation", "@edited"},
                          ![id].blockTags = <<>>]
        /\ arrays' = [arrays EXCEPT ![comments[id].summary] = Append(@, "edited")]
        /\ last' = [last EXCEPT !.op = "mutate", !.ret = id]
        /\ UNCHANGED <<commentCache, maps, pending, parseCount, firstParsed,
                       firstStored, warnings, errors, returned, jsDocCalls>>

Next == GetComment \/ GetSignatureComment \/ GetJsDocComment \/ Mutate

Spec == Init /\ [][Next]_vars

(***************************************************************************)
(* Resolutions that overlap: getSignatureComment split where another       *)
(* resolution can run between its look-up and its store (a logger that     *)
(* calls back into the engine from the warning callback, or a host that    *)
(* runs resolutions concurrently). RaceBegin is lines 22-49 on a miss, and *)
(* RaceFinish lines 51-54 of the same call.                                *)
(***************************************************************************)
RaceBegin ==
    \E declaration \in Signatures, c \in Callers :
        /\ steps < MaxSteps
        /\ Cardinality(pending) < MaxPending
        /\ declaration.discovered /= Undefined
        /\ LET file == declaration.discovered[1]
               range == declaration.discovered[2]
               co == cacheOf(St, file)
               p == parseRange(co.st, file, range, c.config, c.logger)
           IN /\ ~cacheHas(co.st, co.cache, range)
              /\ p.thrown = ""
              /\ pending' = pending \cup {[file |-> file, range |-> range,
                                           cache |-> co.cache, comment |-> p.comment]}
              /\ maps' = p.st.maps
              /\ comments' = p.st.comments
              /\ arrays' = p.st.arrays
              /\ parseCount' = p.st.parseCount
              /\ firstParsed' = p.st.firstParsed
              /\ warnings' = p.st.warnings
              /\ last' = [last EXCEPT !.op = "raceBegin", !.key = <<file, range.pos>>,
                                      !.ret = 0, !.core = 0, !.parsed = TRUE,
                                      !.hit = FALSE]
        /\ steps' = steps + 1
        /\ UNCHANGED <<commentCache, firstStored, errors, returned, jsDocCalls>>

RaceFinish ==
    \E p \in pending :
        /\ LET s == storeAndClone(St, p.file, p.range, p.cache, p.comment)
           IN Effects(CoreResult(s.st, s.id, "", TRUE, FALSE) @@ [core |-> s.id, checks |-> {}],
                      "raceFinish", <<p.file, p.range.pos>>, NoSymbol, NoDeclaration)
        /\ pending' = pending \ {p}
        /\ UNCHANGED <<jsDocCalls, steps>>

NextRace == Next \/ RaceBegin \/ RaceFinish

SpecRace == Init /\ [][NextRace]_vars

(***************************************************************************)
(* Vocabulary of the properties.                                           *)
(***************************************************************************)
\* The Comment instance the cache holds for key k, 0 when it holds none.
Cached(k) ==
    IF k[1] \in DOMAIN commentCache /\ k[2] \in DOMAIN maps[commentCache[k[1]]]
    THEN maps[commentCache[k[1]]][k[2]]
    ELSE 0

IsCall == last.op \in {"getComment", "getSignatureComment", "getJsDocComment"}

\* The array instances Comment id points to.
Arrs(id) ==
    {comments[id].summary}
    \cup {comments[id].blockTags[i].content : i \in 1..Len(comments[id].blockTags)}

TagsOf(v, tagName) == {i \in 1..Len(v.blockTags) : v.blockTags[i].tag = tagName}

IdentifiedTagsOf(v, name, tagName) ==
    {i \in TagsOf(v, tagName) : v.blockTags[i].name = name}

IsModuleValue(v) ==
    "@packageDocumentation" \in v.modifierTags \/ TagsOf(v, "@module") /= {}

KindAt(k) == (CHOOSE r \in Ranges(k[1]) : r.pos = k[2]).kind

\* The Comment instances a caller has changed.
Mutated == {id \in 1..Len(comments) : "@edited" \in comments[id].modifierTags}

WarningsAt(text, at) ==
    Cardinality({i \in 1..Len(warnings) : warnings[i].text = text /\ warnings[i].at = at})

(***************************************************************************)
(* C1. The parser runs at most once for a key (source unit, range start):  *)
(* the first resolution parses, every later one is served from the cache   *)
(* without a parse and yields a value structurally equal to the first      *)
(* parse, sub-tag extractions that share a parent block included.          *)
(***************************************************************************)
C1_ParsedOncePerKey ==
    /\ \A k \in Keys : parseCount[k] <= 1
    /\ IsCall /\ last.core /= 0 =>
         /\ parseCount[last.key] = 1
         /\ last.hit = ~last.parsed
         /\ last.coreValue = firstParsed[last.key]

C1_Witness ==
    /\ last.op = "getJsDocComment"
    /\ last.hit
    /\ parseCount[last.key] = 1
    /\ \E d \in DeclIds : d /= last.declaration.id /\ jsDocCalls[d] > 0

(***************************************************************************)
(* C2. Clone independence: whatever a caller does to a Comment it was      *)
(* given, by the call that parsed or by a later one, the value the cache   *)
(* holds stays the parsed value and every later resolution of the key      *)
(* yields that value.                                                      *)
(***************************************************************************)
C2_CloneIndependence ==
    /\ \A k \in Keys : Cached(k) /= 0 => Deep(St, Cached(k)) = firstParsed[k]
    /\ IsCall /\ last.core /= 0 /\ Mutated /= {} => last.coreValue = firstParsed[last.key]

C2_Witness ==
    /\ IsCall
    /\ last.hit
    /\ \E r \in returned : r.id \in Mutated /\ r.key = last.key /\ r.op /= "getJsDocComment"
    /\ Deep(St, Cached(last.key)) = firstParsed[last.key]

(***************************************************************************)
(* C3. No aliasing: the Comments returned by separate calls are distinct   *)
(* instances with no array in common, and none of them is, or shares an    *)
(* array with, an instance the cache holds; on a miss as on a hit.         *)
(***************************************************************************)
C3_NoAliasing ==
    /\ \A r1, r2 \in returned :
          r1 /= r2 => r1.id /= r2.id /\ Arrs(r1.id) \cap Arrs(r2.id) = {}
    /\ \A r \in returned : \A k \in Keys :
          Cached(k) /= 0 => r.id /= Cached(k) /\ Arrs(r.id) \cap Arrs(Cached(k)) = {}

C3_Witness ==
    \E r1, r2 \in returned :
        /\ r1.seq < r2.seq
        /\ r1.key = r2.key
        /\ r1.op = "getSignatureComment"
        /\ r2.op = "getComment"
        /\ \E r3 \in returned : r3.op = "getJsDocComment"

(***************************************************************************)
(* C4. Module attribution: for a symbol one of whose declarations is a     *)
(* source file and for which a block comment was found, getComment returns *)
(* the comment when it has the @packageDocumentation modifier or a @module *)
(* tag, and nothing when it has neither.                                   *)
(***************************************************************************)
C4_ModuleAttribution ==
    last.op = "getComment" /\ someSourceFile(last.symbol) /\ last.core /= 0 =>
        IF IsModuleValue(firstParsed[last.key])
        THEN last.ret /= 0 /\ last.retValue = firstParsed[last.key]
        ELSE last.ret = 0

C4_Witness ==
    /\ last.op = "getComment"
    /\ someSourceFile(last.symbol)
    /\ last.ret /= 0
    /\ TagsOf(last.retValue, "@module") /= {}
    /\ "@packageDocumentation" \notin last.retValue.modifierTags

(***************************************************************************)
(* C5. Cross-attribution rejection: for a symbol none of whose             *)
(* declarations is a source file, getComment returns nothing when the      *)
(* comment found has the @packageDocumentation modifier or a @module tag   *)
(* and the comment unchanged otherwise; whenever a comment was found,      *)
(* exactly one of the two applicability checks is evaluated.               *)
(***************************************************************************)
C5_CrossAttribution ==
    last.op = "getComment" /\ last.core /= 0 =>
        /\ last.checks = IF someSourceFile(last.symbol) THEN {"module"} ELSE {"nonModule"}
        /\ ~someSourceFile(last.symbol) =>
              IF IsModuleValue(firstParsed[last.key])
              THEN last.ret = 0
              ELSE last.ret = last.core /\ last.retValue = firstParsed[last.key]

C5_Witness ==
    /\ last.op = "getComment"
    /\ ~someSourceFile(last.symbol)
    /\ last.core /= 0
    /\ IsModuleValue(last.coreValue)
    /\ last.ret = 0
    /\ last.checks = {"nonModule"}

(***************************************************************************)
(* C6. When resolutions of one key overlap, both see a miss and both       *)
(* parse, the first store stays: a later store for a key the cache already *)
(* holds never replaces the stored instance, and every caller is given a   *)
(* copy of the instance stored first.                                      *)
(***************************************************************************)
C6_FirstStoreWins ==
    /\ \A k \in Keys : firstStored[k] /= 0 => Cached(k) = firstStored[k]
    /\ (IsCall \/ last.op = "raceFinish") /\ last.core /= 0 =>
          last.coreValue = Deep(St, firstStored[last.key])

(***************************************************************************)
(* C7. Resolving a line-style range ends in a defined unsupported-input    *)
(* outcome: a warning and no comment, or a typed unsupported-feature       *)
(* error; never in the raise of a bare literal.                            *)
(***************************************************************************)
UnsupportedCommentStyle == "UnsupportedCommentStyleError"

C7_LineStyleWellDefined ==
    IsCall /\ last.key /= NoKey /\ KindAt(last.key) = SingleLineCommentTrivia =>
        \/ last.thrown = "" /\ last.ret = 0 /\ last.warned > 0
        \/ last.thrown = UnsupportedCommentStyle

(***************************************************************************)
(* C8. Missing tag: an extraction for a declaration that is not an enum    *)
(* tag, has a name, and whose parsed parent block has no tag identified by *)
(* that name and the declaration's tag name, reports the "please file a    *)
(* bug report" error for that request instead of silently yielding         *)
(* nothing. C8_MissingTagAlwaysError states it for every such declaration; *)
(* C8_MissingTagError excepts the @template tags rejected as ambiguous     *)
(* (inline comment and more than one type parameter), which are warned     *)
(* about before any tag is looked up.                                      *)
(***************************************************************************)
ClaimName(d) == IF d.kind = "JSDocTemplateTag" THEN d.typeParameters[1] ELSE d.name

MissingTag ==
    /\ last.op = "getJsDocComment"
    /\ last.declaration.kind /= "JSDocEnumTag"
    /\ ClaimName(last.declaration) /= ""
    /\ IdentifiedTagsOf(firstParsed[last.key], ClaimName(last.declaration),
                        "@" \o last.declaration.tagName) = {}

BugReported ==
    /\ last.errored = 1
    /\ last.warned = 0
    /\ last.ret = 0
    /\ errors[Len(errors)].text = BugReport
    /\ errors[Len(errors)].at = last.declaration.id

ClaimAmbiguous(d) ==
    d.kind = "JSDocTemplateTag" /\ d.comment /\ Len(d.typeParameters) > 1

C8_MissingTagAlwaysError == MissingTag => BugReported

C8_MissingTagError ==
    MissingTag /\ ~ClaimAmbiguous(last.declaration) => BugReported

C8_Witness ==
    /\ MissingTag
    /\ ~ClaimAmbiguous(last.declaration)
    /\ BugReported
    /\ last.hit

(***************************************************************************)
(* C9. Ambiguous template: for a @template tag with two type parameters    *)
(* and an inline comment every extraction returns nothing.                 *)
(* C9_OneWarningForBoth: the two extractions, one per type parameter,      *)
(* leave exactly one warning. C9_WarningPerExtraction: every extraction    *)
(* leaves one warning, so the two leave two.                               *)
(***************************************************************************)
C9_OneWarningForBoth ==
    \A d \in Declarations :
        ClaimAmbiguous(d) /\ Len(d.typeParameters) = 2 /\ jsDocCalls[d.id] = 2 =>
            WarningsAt(AmbiguousTemplate, d.id) = 1

C9_WarningPerExtraction ==
    /\ \A d \in Declarations :
          ClaimAmbiguous(d) /\ Len(d.typeParameters) = 2 =>
              WarningsAt(AmbiguousTemplate, d.id) = jsDocCalls[d.id]
    /\ last.op = "getJsDocComment" /\ ClaimAmbiguous(last.declaration) =>
          last.ret = 0 /\ last.errored = 0 /\ last.thrown = ""

C9_Witness ==
    /\ last.op = "getJsDocComment"
    /\ last.declaration.id = "templAmb"
    /\ jsDocCalls["templAmb"] = 2
    /\ WarningsAt(AmbiguousTemplate, "templAmb") = 2
    /\ last.ret = 0

(***************************************************************************)
(* C10. Enum sharing: when the parsed parent block has one @enum tag,      *)
(* every enum extraction returns a new Comment whose content is the        *)
(* content of that tag, and the block has been parsed once however many    *)
(* extractions were made.                                                  *)
(***************************************************************************)
C10_EnumSharing ==
    /\ last.op = "getJsDocComment"
    /\ last.declaration.kind = "JSDocEnumTag"
    /\ Cardinality(TagsOf(firstParsed[last.key], "@enum")) = 1
    =>
    /\ last.ret /= 0
    /\ Cardinality({r \in returned : r.id = last.ret}) = 1
    /\ \A k \in Keys : Cached(k) /= last.ret
    /\ \A i \in TagsOf(firstParsed[last.key], "@enum") :
          last.retValue.summary = firstParsed[last.key].blockTags[i].content
    /\ last.retValue.blockTags = <<>>
    /\ parseCount[last.key] = 1

C10_Witness ==
    /\ last.op = "getJsDocComment"
    /\ last.declaration.id = "enumA"
    /\ jsDocCalls["enumA"] = 3
    /\ parseCount[last.key] = 1
    /\ Cardinality({r \in returned : r.op = "getJsDocComment"}) = 3

(***************************************************************************)
(* C11. Signature resolution filters nothing: when discovery for a         *)
(* signature finds a block range, getSignatureComment returns a clone of   *)
(* the comment resolved through the cache, with or without the             *)
(* @packageDocumentation modifier or a @module tag; it returns nothing     *)
(* only when discovery finds nothing.                                      *)
(***************************************************************************)
C11_SignatureUnfiltered ==
    last.op = "getSignatureComment" =>
        /\ last.key /= NoKey /\ KindAt(last.key) = MultiLineCommentTrivia =>
              /\ last.ret /= 0
              /\ last.ret = last.core
              /\ last.ret /= Cached(last.key)
              /\ last.retValue = firstParsed[last.key]
              /\ last.retValue = Deep(St, Cached(last.key))
        /\ last.ret = 0 /\ last.thrown = "" => last.key = NoKey

C11_Witness ==
    /\ last.op = "getSignatureComment"
    /\ last.ret /= 0
    /\ "@packageDocumentation" \in last.retValue.modifierTags
    /\ last.hit

(***************************************************************************)
(* C12. Absence on empty discovery: when discovery finds nothing,          *)
(* getComment and getSignatureComment return nothing, without a parse,     *)
(* without a warning or an error, without throwing, and the cache and the  *)
(* Comments it holds are what they were.                                   *)
(***************************************************************************)
C12_EmptyDiscovery ==
    [][steps' = steps + 1
       /\ last'.op \in {"getComment", "getSignatureComment"}
       /\ last'.key = NoKey
       => /\ last'.ret = 0
          /\ last'.thrown = ""
          /\ ~last'.parsed /\ ~last'.hit
          /\ UNCHANGED <<commentCache, maps, comments, arrays, parseCount,
                         warnings, errors, returned>>]_vars

C12_Witness ==
    /\ last.op \in {"getComment", "getSignatureComment"}
    /\ last.key = NoKey
    /\ last.ret = 0
    /\ last.thrown = ""
    /\ \E k \in Keys : Cached(k) /= 0

(***************************************************************************)
(* C13. A failed resolution leaves the cache as it was: when the shared    *)
(* routine throws (line-style range, or a range of no known kind), the     *)
(* cache holds the same instances with the same values as before the call, *)
(* holds nothing for the failing key, and any resolution made next yields  *)
(* what it would have yielded without the failed call.                     *)
(***************************************************************************)
CacheIds == [k \in Keys |-> Cached(k)]

CacheView == [k \in Keys |-> ValueOf(St, Cached(k))]

\* What a caller observes of the entry-point result r computed from state st.
ViewOf(st, r) ==
    [ret |-> ValueOf(r.st, r.ret), thrown |-> r.thrown, parsed |-> r.parsed,
     hit |-> r.hit, checks |-> r.checks,
     warned |-> SubSeq(r.st.warnings, Len(st.warnings) + 1, Len(r.st.warnings)),
     errored |-> SubSeq(r.st.errors, Len(st.errors) + 1, Len(r.st.errors))]

\* The view of r, with r computed once.
ResultView(st, r) == CHOOSE v \in {ViewOf(st, x) : x \in {r}} : TRUE

\* What each possible next call yields in state st.
Outcomes(st) ==
    [c \in Callers |->
       [symbols |-> [x \in Symbols |->
            ViewOf(st, getComment(st, x, ReflectionKindOf(x), c.config, c.logger))],
        signatures |-> [x \in Signatures |->
            ViewOf(st, getSignatureComment(st, x, c.config, c.logger))],
        declarations |-> [x \in Declarations |->
            ViewOf(st, getJsDocComment(st, x, c.config, c.logger))]]]

\* The record St of the next state.
StNext == [commentCache |-> commentCache', maps |-> maps', comments |-> comments',
           arrays |-> arrays', parseCount |-> parseCount', firstParsed |-> firstParsed',
           firstStored |-> firstStored', warnings |-> warnings', errors |-> errors']

C13_FailureKeepsCache ==
    [][steps' = steps + 1 /\ last'.thrown /= ""
       => /\ commentCache' = commentCache
          /\ CacheIds' = CacheIds
          /\ CacheView' = CacheView
          /\ CacheIds'[last'.key] = 0
          /\ UNCHANGED <<parseCount, firstParsed, firstStored>>
          /\ Outcomes(StNext) = Outcomes(St)]_vars

C13_Witness ==
    /\ last.thrown = AssertNeverError
    /\ last.key = <<"b.ts", 9>>
    /\ Cached(<<"b.ts", 0>>) /= 0
    /\ Cached(<<"b.ts", 9>>) = 0
    /\ Cardinality(returned) = 2

(***************************************************************************)
(* C14. Cache entries are never invalidated or replaced: once a key holds  *)
(* a canonical Comment, every step (a resolution, a rejection by the       *)
(* filter, a sub-tag extraction, a failed request, a caller's mutation of  *)
(* what it was given) leaves the key present, on the same Comment          *)
(* instance, with the same value.                                          *)
(***************************************************************************)
C14_EntriesPermanent ==
    [][\A k \in Keys :
          Cached(k) /= 0 =>
             /\ CacheIds'[k] = Cached(k)
             /\ CacheView'[k] = Deep(St, Cached(k))
             /\ CacheView'[k] = firstParsed[k]]_vars

C14_Witness ==
    /\ last.op = "getJsDocComment"
    /\ last.errored = 1
    /\ last.parsed
    /\ last.key = <<"a.ts", 5>>
    /\ Cached(<<"a.ts", 0>>) /= 0
    /\ Cached(<<"a.ts", 0>>) = firstStored[<<"a.ts", 0>>]
    /\ Cached(<<"a.ts", 5>>) /= 0

(***************************************************************************)
(* C15. The cache is partitioned by (source unit, range start): a          *)
(* resolution is served from the cache exactly when this very key was      *)
(* stored before, and then with the value stored for it; an entry of the   *)
(* same offset in another unit or of another offset in the same unit is    *)
(* never given; a store for one unit leaves the partition of every other   *)
(* unit, and every other key, as it was.                                   *)
(***************************************************************************)
\* The Map instance registered for file f (0 for none) and its contents.
Partition(f) ==
    IF f \in DOMAIN commentCache
    THEN [map |-> commentCache[f], entries |-> maps[commentCache[f]]]
    ELSE [map |-> 0, entries |-> <<>>]

Partitions == [f \in Files |-> Partition(f)]

C15_Partitioned ==
    [][steps' = steps + 1 /\ last'.op /= "mutate" /\ last'.key /= NoKey
       => /\ last'.hit <=> Cached(last'.key) /= 0
          /\ last'.hit => /\ last'.coreValue = Deep(St, Cached(last'.key))
                          /\ last'.coreValue = firstParsed[last'.key]
          /\ last'.parsed =>
                last'.coreValue =
                   parseComment(lexBlockComment(last'.key[1], last'.key[2], last'.key[2] + 3),
                                cfgFull).comment
                \/ last'.coreValue =
                   parseComment(lexBlockComment(last'.key[1], last'.key[2], last'.key[2] + 3),
                                cfgBare).comment
          /\ \A f \in Files : f /= last'.key[1] => Partitions'[f] = Partition(f)
          /\ \A k \in Keys : k /= last'.key => CacheIds'[k] = Cached(k)]_vars

C15_Witness ==
    /\ IsCall
    /\ last.parsed
    /\ last.key = <<"b.ts", 0>>
    /\ Cached(<<"a.ts", 0>>) /= 0
    /\ Cached(<<"b.ts", 5>>) /= 0
    /\ Cached(<<"b.ts", 0>>) /= 0

(***************************************************************************)
(* C16. The target name of an extraction: for a @template tag that is not  *)
(* rejected as ambiguous the tag is looked up by the name of the first     *)
(* listed type parameter and "@template", so the extraction for every type *)
(* parameter of one tag yields the content written under the first         *)
(* parameter; for every other construct but an enum tag the look-up uses   *)
(* the declaration's own name.                                             *)
(***************************************************************************)
FirstOf(S) == CHOOSE i \in S : \A j \in S : i <= j

\* What an extraction by (name, tagName) from the parsed block v must give.
ExtractedBy(v, name, tagName) ==
    LET tags == IdentifiedTagsOf(v, name, tagName)
    IN IF name = "" \/ tags = {}
       THEN NoValue
       ELSE [summary |-> v.blockTags[FirstOf(tags)].content,
             blockTags |-> <<>>, modifierTags |-> {}]

Rejected(d) ==
    d.kind = "JSDocTemplateTag" /\ d.comment /\ Len(d.typeParameters) > 1

C16_TargetName ==
    last.op = "getJsDocComment" /\ last.declaration.kind /= "JSDocEnumTag"
    /\ ~Rejected(last.declaration) =>
        LET d == last.declaration
        IN /\ d.kind = "JSDocTemplateTag" =>
                last.retValue = ExtractedBy(firstParsed[last.key], d.typeParameters[1],
                                            "@template")
           /\ d.kind /= "JSDocTemplateTag" =>
                last.retValue = ExtractedBy(firstParsed[last.key], d.name,
                                            "@" \o d.tagName)

C16_Witness ==
    /\ last.op = "getJsDocComment"
    /\ last.declaration.id = "templMulti"
    /\ jsDocCalls["templMulti"] = 2
    /\ last.hit
    /\ last.retValue.summary = <<"tt">>
    /\ jsDocCalls["paramX"] = 1

(***************************************************************************)
(* C17. A name that cannot be determined is plain absence: an extraction   *)
(* for a declaration that is neither an enum tag nor a template tag and    *)
(* has no name (or an empty one) returns nothing, throws nothing, and the  *)
(* engine reports neither a warning nor an error for it; the parent block  *)
(* is parsed and cached as for any extraction.                             *)
(***************************************************************************)
EngineWarnings == {i \in 1..Len(warnings) : warnings[i].text = AmbiguousTemplate}

C17_NoNameIsAbsence ==
    last.op = "getJsDocComment"
    /\ last.declaration.kind \notin {"JSDocEnumTag", "JSDocTemplateTag"}
    /\ last.declaration.name = "" =>
        /\ last.ret = 0
        /\ last.thrown = ""
        /\ last.errored = 0
        /\ \A i \in 1..Len(errors) : errors[i].at /= last.declaration.id
        /\ \A i \in EngineWarnings : warnings[i].at /= last.declaration.id
        /\ last.core /= 0
        /\ Cached(last.key) /= 0

C17_Witness ==
    /\ last.op = "getJsDocComment"
    /\ last.declaration.id = "paramAnon"
    /\ last.ret = 0
    /\ last.parsed
    /\ last.warned = 0
    /\ warnings /= <<>>
    /\ errors = <<>>

(***************************************************************************)
(* C18. A rejection by the applicability filter, or an extraction that     *)
(* yields nothing (ambiguous template, no name, tag not found), leaves the *)
(* parsed comment in the cache: the call changes the cache by the store of *)
(* the shared routine and by nothing else, and the next resolution of the  *)
(* same key, for whatever symbol or declaration, is served from the cache  *)
(* without a second parse; the first statement of a file is given the      *)
(* comment the file-level symbol was refused.                              *)
(***************************************************************************)
\* The last call got a Comment from the shared routine and returned nothing.
Refused == IsCall /\ last.core /= 0 /\ last.ret = 0

C18_RejectionKeepsEntry ==
    [][steps' = steps + 1 /\ last'.op /= "mutate" =>
         /\ last'.core /= 0 /\ last'.ret = 0 =>
              /\ CacheIds'[last'.key] /= 0
              /\ CacheIds'[last'.key] = firstStored'[last'.key]
              /\ CacheView'[last'.key] = last'.coreValue
              /\ last'.hit => /\ UNCHANGED <<commentCache, maps>>
                              /\ CacheView' = CacheView
              /\ \A k \in Keys : k /= last'.key =>
                    /\ CacheIds'[k] = Cached(k)
                    /\ CacheView'[k] = CacheView[k]
         /\ Refused /\ last'.key = last.key =>
              /\ last'.hit
              /\ ~last'.parsed
              /\ parseCount' = parseCount
              /\ last'.coreValue = last.coreValue
              /\ /\ last.op = "getComment" /\ someSourceFile(last.symbol)
                 /\ last'.op = "getComment" /\ ~someSourceFile(last'.symbol)
                 => /\ last'.ret /= 0
                    /\ last'.retValue = last.coreValue]_vars

C18_Witness ==
    /\ last.op = "getComment"
    /\ ~someSourceFile(last.symbol)
    /\ last.key = <<"a.ts", 0>>
    /\ last.hit
    /\ last.ret /= 0
    /\ parseCount[last.key] = 1
    /\ steps = 2
    /\ Cardinality(returned) = 1

(***************************************************************************)
(* C19. The cache key ignores the parser configuration and the logger: a   *)
(* resolution of a key the cache already holds gives what it would give    *)
(* under any other caller's config and logger, the comment of the first    *)
(* parse, without parsing or warning again, and its own diagnostics go to  *)
(* the logger of the call; the parser's warnings for a key are those of    *)
(* the one parse that was stored, delivered once, to the logger of the     *)
(* call that parsed.                                                       *)
(***************************************************************************)
\* A result without the loggers its diagnostics went to.
Blind(v) ==
    [v EXCEPT !.warned = [i \in DOMAIN @ |-> [text |-> @[i].text, at |-> @[i].at]],
              !.errored = [i \in DOMAIN @ |-> [text |-> @[i].text, at |-> @[i].at]]]

\* The warnings of ws the parser raised for key k, in order.
ParserWarnings(ws, k) ==
    SelectSeq(ws, LAMBDA w : w.text /= AmbiguousTemplate /\ w.at = k)

\* The parser's warnings for every key are those of the one parse that was
\* stored (fp), each once, on the logger of one caller.
ParserWarnedOnce(ws, fp) ==
    \A k \in Keys :
       \/ ParserWarnings(ws, k) = <<>>
       \/ \E c \in Callers :
             LET p == parseComment(lexBlockComment(k[1], k[2], k[2] + 3), c.config)
             IN /\ fp[k] = p.comment
                /\ ParserWarnings(ws, k) =
                      [i \in 1..Len(p.warned) |->
                         [logger |-> c.logger, text |-> p.warned[i], at |-> k]]

\* What the call of this step gave its caller.
StepView ==
    [ret |-> last'.retValue, thrown |-> last'.thrown, parsed |-> last'.parsed,
     hit |-> last'.hit, checks |-> last'.checks,
     warned |-> SubSeq(warnings', Len(warnings) + 1, Len(warnings')),
     errored |-> SubSeq(errors', Len(errors) + 1, Len(errors'))]

\* The call of this step, made by caller c instead.
Replay(c) ==
    CASE last'.op = "getComment" ->
           getComment(St, last'.symbol, ReflectionKindOf(last'.symbol), c.config, c.logger)
      [] last'.op = "getSignatureComment" ->
           getSignatureComment(St,
               CHOOSE x \in Signatures : KeyOf(x.discovered) = last'.key,
               c.config, c.logger)
      [] OTHER ->
           getJsDocComment(St, last'.declaration, c.config, c.logger)

C19_ConfigIgnored ==
    [][steps' = steps + 1 /\ last'.op /= "mutate" =>
         /\ ParserWarnedOnce(warnings', firstParsed')
         /\ Cached(last'.key) /= 0 =>
              /\ last'.hit
              /\ last'.coreValue = firstParsed[last'.key]
              /\ parseCount' = parseCount
              /\ \E c \in Callers :
                    /\ \A i \in DOMAIN StepView.warned : StepView.warned[i].logger = c.logger
                    /\ \A i \in DOMAIN StepView.errored : StepView.errored[i].logger = c.logger
              /\ \A c \in Callers :
                    \A v \in {ResultView(St, Replay(c))} :
                       /\ Blind(v) = Blind(StepView)
                       /\ \A i \in DOMAIN v.warned :
                             /\ v.warned[i].logger = c.logger
                             /\ v.warned[i].text = AmbiguousTemplate
                       /\ \A i \in DOMAIN v.errored : v.errored[i].logger = c.logger]_vars

C19_Witness ==
    /\ IsCall
    /\ last.hit
    /\ last.key = <<"a.ts", 0>>
    /\ steps = 3
    /\ parseCount[last.key] = 1
    /\ firstParsed[last.key] /=
          parseComment(lexBlockComment("a.ts", 0, 3), cfgFull).comment
    /\ Len(ParserWarnings(warnings, last.key)) = 1
    /\ ParserWarnings(warnings, last.key)[1].logger = "L2"
    /\ \A i \in 1..Len(warnings) : warnings[i].logger = "L2"

(***************************************************************************)
(* C20. An enum extraction never yields nothing and never reports a        *)
(* diagnostic of the engine: for a JSDocEnumTag declaration                *)
(* getJsDocComment returns a new Comment, neither the missing-tag error    *)
(* nor the template warning is raised, and when the parsed parent block    *)
(* has no @enum tag the Comment returned is empty.                         *)
(***************************************************************************)
EmptyComment == [summary |-> <<>>, blockTags |-> <<>>, modifierTags |-> {}]

C20_EnumNeverAbsent ==
    last.op = "getJsDocComment" /\ last.declaration.kind = "JSDocEnumTag" =>
        /\ last.ret /= 0
        /\ last.thrown = ""
        /\ last.ret /= last.core
        /\ \A k \in Keys : Cached(k) /= last.ret
        /\ Cardinality({r \in returned : r.id = last.ret}) = 1
        /\ last.errored = 0
        /\ \A i \in 1..Len(errors) : errors[i].at /= last.declaration.id
        /\ \A i \in EngineWarnings : warnings[i].at /= last.declaration.id
        /\ TagsOf(firstParsed[last.key], "@enum") = {} => last.retValue = EmptyComment

C20_Witness ==
    /\ last.op = "getJsDocComment"
    /\ last.declaration.id = "enumB"
    /\ TagsOf(firstParsed[last.key], "@enum") = {}
    /\ last.ret /= 0
    /\ last.retValue = EmptyComment
    /\ last.hit

====
